---- MODULE Spec2Model ----
(***************************************************************************)
(* The task queue of audiopaper (src/utils/task_queue.py): a table of      *)
(* Task rows (id, status, result) shared by the worker threads that        *)
(* TaskQueue.start_workers starts.  A row's result column is a JSON        *)
(* payload with the scheduling fields; here it is a record.  Every worker  *)
(* keeps what its own session loaded: the task it took from               *)
(* get_next_task, the status it saw, and the task_data dict that           *)
(* process_task decoded.                                                   *)
(***************************************************************************)
EXTENDS Integers, Sequences, FiniteSets, TLC

\* ------------------------------------------------------------------ bounds
MaxTasks == 2        \* rows that calls of enqueue create
ChainLen == 3        \* tasks in the list given to enqueue_chain
MaxWorkers == 2      \* worker threads start_workers may start
MaxClock == 6        \* last reading of the clock when seconds are counted
Horizon == 70        \* last reading of the clock when retry delays are waited for
RunsCap == 2         \* the count of handler calls kept per task saturates here
MaxManual == 1       \* calls of retry_task

CacheStep == 100     \* seconds that pass at a time while the cache is used
CacheHorizon == 301  \* last reading of the clock while the cache is used
ShortTtl == 100      \* a ttl, in seconds, that a caller passes instead of the default

MaxAttempt == 16     \* largest attempts counter a retry delay is computed for
MaxDirect == 3       \* tasks the generation routes start directly

\* ------------------------------------------------------- program constants
DefaultMaxRetries == 3   \* TaskQueue.__init__(max_retries=3)
DefaultMaxWorkers == 3   \* TaskQueue.get_instance(max_workers=3)
BaseDelay == 60          \* seconds, process_task: 2**attempts * 60
DelayCap == 3600         \* seconds, process_task: min(..., 3600)
DefaultTtl == 300        \* seconds, SimpleCache(default_ttl=300)

None == 0
TaskIds == 1 .. (IF MaxTasks > ChainLen THEN MaxTasks ELSE ChainLen)
Workers == 1 .. MaxWorkers

\* the routes that call task_queue.start_workers(app), each in the thread of
\* its request, and the number of loops one such call asks for
Callers == {"import", "retry"}
HalfWorkers == MaxWorkers \div 2

\* TaskStatus
PENDING == "pending"
QUEUED == "queued"
PROCESSING == "processing"
COMPLETE == "complete"
ERROR == "error"
RETRYING == "retrying"

\* task types that enqueue names; a handler is registered for the first only
TaskTypes == {"summary", "transcript"}
RegisteredTypes == {"summary"}
FileIds == {7, 12}
Priorities == {1, 5, 10}
DefaultPriority == 5     \* enqueue(priority=5)

\* batches of the import route: str(uuid.uuid4())[:8]; a task that enqueue
\* created has no batch_id
BatchIds == {"b1", "b2"}
NoBatch == "none"
BatchPriority == 10      \* "priority": 10 of the import route
BatchMaxAttempts == 3    \* "max_attempts": 3 of the import route
FirstNewFile == 20       \* ids of the PDFFile rows the import route creates

NoError == <<>>
NoData == [status |-> "none"]

\* cache keys and prefixes, as sequences of characters; the cached values
CacheKeys == {<<"u", "1">>, <<"u", "2">>, <<"p", "1">>}
Prefixes == {<<>>, <<"u">>, <<"p">>, <<"1">>, <<"u", "1">>}
Values == {1, 2}

\* the threads that call TaskQueue.get_instance, and one that is not in a call
Getters == {"g1", "g2", "g3"}
\* TaskQueue._lock held by no thread
Unlocked == "unlocked"
\* TaskQueue._instance = None
NoInstance == [max_workers |-> None, serial |-> 0]
NotCalling == [pc |-> "out", max_workers |-> None, ret |-> NoInstance]

\* no call was made yet
NoCall == [name |-> "none", key |-> <<>>, ret |-> None, computed |-> FALSE]

VARIABLES
  tasks,          \* the Task table: id -> row (status and the decoded result)
  task_handlers,  \* TaskQueue._task_handlers: the task types with a handler
  max_retries,    \* TaskQueue.max_retries
  running,        \* TaskQueue._running
  starters,       \* the callers of start_workers that are past its _running test
  pc,             \* where each worker thread is in _worker_loop
  cur,            \* the task a worker's get_next_task returned
  seen,           \* the status that worker's session holds for it
  data,           \* process_task's task_data of that worker
  clock,          \* datetime.utcnow(), in seconds
  runs,           \* history: handler calls so far, per task
  manual,         \* history: calls of retry_task so far
  cache,          \* SimpleCache._cache: key -> (value, timestamp)
  written,        \* history: per key, the last set since it was last removed by a caller
  op,             \* history: the last call made and what it returned
  threads,        \* the threads the generation routes started: task id -> where it is
  instance,       \* TaskQueue._instance
  lock,           \* the thread that holds TaskQueue._lock
  getters         \* the threads inside TaskQueue.get_instance: where, argument, result

\* the state of the cache and of its callers
cvars == <<cache, written, op>>

\* the generation threads and the singleton with its callers
xvars == <<threads, instance, lock, getters>>

\* the state of the queue and its workers, the clock apart
qvars_but_tasks == <<task_handlers, max_retries, starters, running, pc, cur, seen, data, runs, manual>>
qvars == <<tasks, task_handlers, max_retries, starters, running, pc, cur, seen, data, runs, manual>>

vars == <<tasks, task_handlers, max_retries, starters, running, pc, cur, seen, data, clock, runs, manual, cache, written, op,
          threads, instance, lock, getters>>

\* --------------------------------------------------------------- helpers
Min(a, b) == IF a < b THEN a ELSE b

RECURSIVE Pow2(_)
Pow2(n) == IF n = 0 THEN 1 ELSE 2 * Pow2(n - 1)

\* a delay that doubles without a cap
UncappedDelay(attempts) == Pow2(attempts) * BaseDelay

\* delay = min(2**attempts * 60, 3600)
RetryDelay(attempts) == Min(Pow2(attempts) * BaseDelay, DelayCap)

\* str(n) as character codes
RECURSIVE Dec(_)
Dec(n) == IF n < 10 THEN <<48 + n>> ELSE Dec(n \div 10) \o <<48 + (n % 10)>>

\* datetime.isoformat(): fixed width, so a reading of the clock is zero padded
IsoFormat(t) ==
  <<48 + ((t \div 1000) % 10), 48 + ((t \div 100) % 10), 48 + ((t \div 10) % 10), 48 + (t % 10)>>

TypeText(ty) ==
  CASE ty = "summary" -> <<115, 117, 109, 109, 97, 114, 121>>
    [] ty = "transcript" -> <<116, 114, 97, 110, 115, 99, 114, 105, 112, 116>>

BatchText(b) ==
  CASE b = "b1" -> <<98, 49>>
    [] b = "b2" -> <<98, 50>>

\* json.dumps of the depends_on value: null, or the quoted id
DependsText(d) == IF d = None THEN <<110, 117, 108, 108>> ELSE <<34>> \o Dec(d) \o <<34>>

\* The text of Task.result, reduced to the values and the character that
\* follows each one: the keys and punctuation between them are the same in
\* every row up to the key after file_id ("priority" in a row of enqueue,
\* "batch_id" in a row of the import route), which is kept by its first
\* character; after it the rows of one kind again have the same keys.  The
\* text starts with the first character of its first key: "task_type", or
\* "success" or "error" in a row that a generation handler wrote, which holds
\* nothing else that differs from row to row.
ResultText(r) ==
  IF r.task_type = "none"
    THEN (IF r.error = NoError THEN <<115>> ELSE <<101>>)
    ELSE <<116>> \o TypeText(r.task_type) \o <<34>> \o Dec(r.file_id) \o <<44>>
           \o (IF r.batch_id = NoBatch
                 THEN <<112>> \o Dec(r.priority) \o <<44>>
                        \o DependsText(r.depends_on) \o <<44>> \o Dec(r.attempts) \o <<44>>
                        \o Dec(r.max_attempts) \o <<44>> \o IsoFormat(r.created_at) \o <<34>>
                 ELSE <<98>> \o BatchText(r.batch_id) \o <<34>> \o Dec(r.priority) \o <<44>>
                        \o Dec(r.attempts) \o <<44>> \o Dec(r.max_attempts) \o <<125>>)

StatusText(s) ==
  CASE s = PENDING -> <<112, 101, 110, 100, 105, 110, 103>>
    [] s = QUEUED -> <<113, 117, 101, 117, 101, 100>>

\* SQLite's BINARY collation on two texts: a sorts before b when, at the first
\* position where they differ, a has ended or holds the smaller character
TextLess(a, b) ==
  \E x \in {a}, y \in {b} :
    \E k \in 1 .. Len(y) :
      /\ \A j \in 1 .. (k - 1) : j <= Len(x) /\ x[j] = y[j]
      /\ \/ k = Len(x) + 1
         \/ k <= Len(x) /\ x[k] < y[k]

\* order_by(Task.status, Task.result.desc()): row a comes before row b
OrderBefore(a, b) ==
  \/ TextLess(StatusText(a.status), StatusText(b.status))
  \/ /\ a.status = b.status
     /\ TextLess(ResultText(b), ResultText(a))

\* filter(Task.status.in_([PENDING, QUEUED]))
PendingIds(ts) == {i \in DOMAIN ts : ts[i].status \in {PENDING, QUEUED}}

\* the rows of the query in the order the database returns them: a row's
\* place is one more than the number of rows that come before it; rows that
\* the ORDER BY does not tell apart come in the order of the table
QueryOrder(ts, S) ==
  [k \in 1 .. Cardinality(S) |->
     CHOOSE i \in S :
       Cardinality({j \in S :
          \/ OrderBefore(ts[j], ts[i])
          \/ j < i /\ ~OrderBefore(ts[i], ts[j])}) = k - 1]

\* a dependency check that looks the task up and ignores its status
DependencyKnown(ts, d) == d \in DOMAIN ts

\* dep_task and dep_task.status == COMPLETE
DependencyComplete(ts, d) == d \in DOMAIN ts /\ ts[d].status = COMPLETE

\* dep_task and dep_task.status == ERROR
DependencyFailed(ts, d) == d \in DOMAIN ts /\ ts[d].status = ERROR

\* the loop of get_next_task over the query's rows: the table as the cascade
\* commits leave it, and the task returned (None when the loop runs out)
RECURSIVE ScanPending(_, _)
ScanPending(ts, order) ==
  IF order = <<>> THEN [table |-> ts, found |-> None]
  ELSE LET t == Head(order)
           d == ts[t].depends_on
       IN IF d = None THEN [table |-> ts, found |-> t]
          ELSE IF DependencyComplete(ts, d) THEN [table |-> ts, found |-> t]
          ELSE IF DependencyFailed(ts, d)
            THEN ScanPending(
                   [ts EXCEPT ![t].status = ERROR, ![t].error = <<"Dependency failed", d>>],
                   Tail(order))
          ELSE ScanPending(ts, Tail(order))

get_next_task(ts) ==
  LET order == CHOOSE o \in {QueryOrder(ts, PendingIds(ts))} : TRUE
  IN ScanPending(ts, order)

\* Task(id, status=PENDING, result=json.dumps({...})) of enqueue
NewTask(ty, f, p, d) ==
  [status |-> PENDING, task_type |-> ty, file_id |-> f, priority |-> p,
   depends_on |-> d, attempts |-> 0, max_attempts |-> max_retries,
   created_at |-> clock, started_at |-> None, completed_at |-> None,
   retry_at |-> None, error |-> NoError, batch_id |-> NoBatch]

\* Task(id, status=PENDING, result=json.dumps({...})) of the import route, for
\* the new file of task id: no depends_on and no created_at in the row
BatchTask(b, id) ==
  [status |-> PENDING, task_type |-> "summary", file_id |-> FirstNewFile + id,
   priority |-> BatchPriority, depends_on |-> None, attempts |-> 0,
   max_attempts |-> BatchMaxAttempts, created_at |-> None, started_at |-> None,
   completed_at |-> None, retry_at |-> None, error |-> NoError, batch_id |-> b]

\* get_task_status(task_id): None for an unknown id, else what the row holds
get_task_status(ts, id) ==
  IF id \notin DOMAIN ts THEN [id |-> None]
  ELSE [id |-> id, status |-> ts[id].status, task_type |-> ts[id].task_type,
        file_id |-> ts[id].file_id, attempts |-> ts[id].attempts,
        max_attempts |-> ts[id].max_attempts, error |-> ts[id].error,
        created_at |-> ts[id].created_at, completed_at |-> ts[id].completed_at]

\* ------------------------------------------------------ get_batch_status
\* the rows of Task.query.all() that carry the batch id, as a list
RECURSIVE ListOf(_)
ListOf(S) ==
  IF S = {} THEN <<>>
  ELSE LET i == CHOOSE i \in S : \A j \in S : i <= j
       IN <<i>> \o ListOf(S \ {i})

BatchRows(ts, b) == ListOf({i \in DOMAIN ts : ts[i].batch_id = b})

\* a classification that takes a claimed task for one being processed
BucketQueuedAsProcessing(st) ==
  IF st = COMPLETE THEN "complete"
  ELSE IF st = ERROR THEN "error"
  ELSE IF st \in {PROCESSING, QUEUED} THEN "processing"
  ELSE "pending"

\* the counter a task's status adds to
StatusBucket(st) ==
  IF st = COMPLETE THEN "complete"
  ELSE IF st = ERROR THEN "error"
  ELSE IF st = PROCESSING THEN "processing"
  ELSE "pending"

\* a counting step whose second test is a fresh if, not an elif: a complete
\* task falls through to the else of the second chain as well
TallyTwice(counts, st) ==
  IF st = COMPLETE
    THEN [counts EXCEPT !.complete = @ + 1, !.pending = @ + 1]
    ELSE [counts EXCEPT ![StatusBucket(st)] = @ + 1]

\* status_counts[...] += 1 for one task
Tally(counts, st) == [counts EXCEPT ![StatusBucket(st)] = @ + 1]

\* for task in tasks: count it, append its entry to tasks_data
RECURSIVE CountBatch(_, _, _)
CountBatch(ts, rows, counts) ==
  IF rows = <<>> THEN counts
  ELSE LET t == Head(rows)
       IN CountBatch(ts, Tail(rows),
            [Tally(counts, ts[t].status) EXCEPT
               !.tasks = Append(@, [id |-> t, status |-> ts[t].status,
                                    file_id |-> ts[t].file_id, error |-> ts[t].error,
                                    attempts |-> ts[t].attempts])])

get_batch_status(ts, b) ==
  LET rows == BatchRows(ts, b)
  IN IF rows = <<>>
       THEN [total |-> 0, complete |-> 0, error |-> 0, processing |-> 0,
             pending |-> 0, tasks |-> <<>>]
       ELSE CountBatch(ts, rows,
              [total |-> Len(rows), complete |-> 0, error |-> 0, processing |-> 0,
               pending |-> 0, tasks |-> <<>>])

\* ------------------------------------------------------------ SimpleCache
\* a dict without key k
Without(c, K) == [k \in DOMAIN c \ K |-> c[k]]

\* prefix in k: the prefix occurs somewhere in the key
Contains(k, p) ==
  \E i \in 0 .. (Len(k) - Len(p)) : SubSeq(k, i + 1, i + Len(p)) = p

\* k.startswith(prefix)
StartsWith(k, p) == Len(p) <= Len(k) /\ SubSeq(k, 1, Len(p)) = p

\* a get for which an entry has not expired when exactly the TTL has elapsed
LookupLate(c, k, now) ==
  IF k \in DOMAIN c
    THEN IF now - c[k].timestamp <= DefaultTtl
           THEN [cache |-> c, ret |-> c[k].value]
           ELSE [cache |-> Without(c, {k}), ret |-> None]
    ELSE [cache |-> c, ret |-> None]

\* what get(key) does to the dict and returns, at time now
Lookup(c, k, now) ==
  IF k \in DOMAIN c
    THEN IF now - c[k].timestamp < DefaultTtl
           THEN [cache |-> c, ret |-> c[k].value]
           ELSE [cache |-> Without(c, {k}), ret |-> None]
    ELSE [cache |-> c, ret |-> None]

\* what set(key, value, ttl) does to the dict, at time now: ttl is replaced by
\* the default when it is None and then not used
Store(c, k, v, ttl, now) == (k :> [value |-> v, timestamp |-> now]) @@ c

\* the entry a caller's set(key, value, ttl) asks for: the ttl given, or the
\* default
Asked(v, ttl, now) ==
  [value |-> v, timestamp |-> now, ttl |-> IF ttl = None THEN DefaultTtl ELSE ttl]

\* register_handler(task_type, handler) on the handlers registered so far
register_handler(handlers, ty) == handlers \cup {ty}

\* ------------------------------------------------------------------ Init
\* A TaskQueue(max_retries=m) on an empty table, after register_handler was
\* called for each of RegisteredTypes
InitWith(retries) ==
  /\ tasks = <<>>
  /\ task_handlers = UNION {register_handler({}, ty) : ty \in RegisteredTypes}
  /\ max_retries \in retries
  /\ running = FALSE
  /\ starters = {}
  /\ pc = [w \in Workers |-> "off"]
  /\ cur = [w \in Workers |-> None]
  /\ seen = [w \in Workers |-> "none"]
  /\ data = [w \in Workers |-> NoData]
  /\ clock = 1
  /\ runs = <<>>
  /\ manual = 0
  /\ cache = <<>>
  /\ written = <<>>
  /\ op = NoCall
  /\ threads = <<>>
  /\ instance = NoInstance
  /\ lock = Unlocked
  /\ getters = [g \in Getters |-> NotCalling]

Init == InitWith({DefaultMaxRetries})

\* --------------------------------------------------------------- actions
\* enqueue(task_type, file_id, priority, depends_on=d): uuid4 gives an id that
\* was never given; the clock moves on while the row is committed
enqueue(ty, f, p, d) ==
  /\ Cardinality(DOMAIN runs) < MaxTasks
  /\ \E id \in (1 .. MaxTasks) \ DOMAIN runs :
       /\ tasks' = (id :> NewTask(ty, f, p, d)) @@ tasks
       /\ runs' = (id :> 0) @@ runs
  /\ clock' = clock + 1
  /\ UNCHANGED <<task_handlers, max_retries, cvars, xvars, starters, running, pc, cur, seen, data, manual>>

\* a chain whose tasks are not linked to the one before
no_previous_task == None

\* the import route with auto_generate: one task per new file, all committed
\* together under a fresh batch id, then task_queue.start_workers(app)
import_batch(b, ids) ==
  /\ ids # {}
  /\ ids \cap DOMAIN tasks = {}
  /\ \A i \in DOMAIN tasks : tasks[i].batch_id # b
  /\ tasks' = [i \in ids |-> BatchTask(b, i)] @@ tasks
  /\ runs' = [i \in ids |-> 0] @@ runs
  /\ running' = TRUE
  /\ pc' = IF running THEN pc ELSE [w \in Workers |-> "poll"]
  /\ UNCHANGED <<task_handlers, max_retries, cvars, xvars, starters, cur, seen, data, clock, manual>>

\* a chain whose tasks all depend on its first task
first_task_id ==
  IF DOMAIN tasks = {} THEN None
  ELSE CHOOSE i \in DOMAIN tasks :
         \A j \in DOMAIN tasks : tasks[i].created_at <= tasks[j].created_at

\* enqueue_chain, one task of the list at a time: each is enqueued with
\* depends_on = previous_task_id, the id of the task enqueued before it
previous_task_id ==
  IF DOMAIN tasks = {} THEN None
  ELSE CHOOSE i \in DOMAIN tasks :
         \A j \in DOMAIN tasks : tasks[j].created_at <= tasks[i].created_at

enqueue_chain(ty, f, p) ==
  /\ Cardinality(DOMAIN runs) < ChainLen
  /\ \E id \in (1 .. ChainLen) \ DOMAIN runs :
       /\ tasks' = (id :> NewTask(ty, f, p, previous_task_id)) @@ tasks
       /\ runs' = (id :> 0) @@ runs
  /\ clock' = clock + 1
  /\ UNCHANGED <<task_handlers, max_retries, cvars, xvars, starters, running, pc, cur, seen, data, manual>>

\* d seconds pass: up to the limit, and past it for as long as a retry delay
\* that process_task set has not elapsed
Tick(d, limit) ==
  /\ \/ clock + d <= limit
     \/ \E t \in DOMAIN tasks : tasks[t].status = RETRYING /\ tasks[t].retry_at > clock
  /\ clock' = clock + d
  /\ UNCHANGED <<tasks, task_handlers, max_retries, cvars, xvars, starters, running, pc, cur, seen, data, runs, manual>>

\* start_workers(app, num_workers=n)
start_workers(n) ==
  /\ ~running
  /\ running' = TRUE
  /\ pc' = [w \in Workers |-> IF w <= n THEN "poll" ELSE pc[w]]
  /\ UNCHANGED <<tasks, task_handlers, max_retries, cvars, xvars, starters, cur, seen, data, clock, runs, manual>>

\* start_workers in a request thread, its first statement: if self._running:
\* return.  The caller goes on when the flag is not set.
start_workers_test(c) ==
  /\ c \notin starters
  /\ ~running
  /\ starters' = starters \cup {c}
  /\ UNCHANGED <<tasks, task_handlers, max_retries, cvars, xvars, running, pc, cur, seen, data, clock, runs, manual>>

\* the rest of start_workers for that caller: self._running = True and one new
\* thread per i in range(num_workers)
start_workers_spawn(c, n) ==
  /\ c \in starters
  /\ starters' = starters \ {c}
  /\ running' = TRUE
  /\ \E new \in SUBSET {w \in Workers : pc[w] = "off"} :
       /\ Cardinality(new) = n
       /\ pc' = [w \in Workers |-> IF w \in new THEN "poll" ELSE pc[w]]
  /\ UNCHANGED <<tasks, task_handlers, max_retries, cvars, xvars, cur, seen, data, clock, runs, manual>>

\* stop_workers(): self._running = False.  The joins that follow wait for the
\* threads, five seconds each at most, and change nothing.
stop_workers ==
  /\ running' = FALSE
  /\ UNCHANGED <<tasks, task_handlers, max_retries, cvars, xvars, starters, pc, cur, seen, data, clock, runs, manual>>

\* the joins of a stop_workers call have returned: a thread that is not
\* blocked in its handler has seen the flag within the five seconds and ended
Joined == \A w \in Workers : pc[w] \in {"off", "handler", "handled"}

\* SimpleCache.get(key)
get(k) ==
  /\ \E r \in {Lookup(cache, k, clock)} :
       /\ cache' = r.cache
       /\ op' = [name |-> "get", key |-> k, ret |-> r.ret, computed |-> FALSE]
  /\ UNCHANGED <<qvars, xvars, clock, written>>

\* SimpleCache.set(key, value, ttl)
set(k, v, ttl) ==
  /\ cache' = Store(cache, k, v, ttl, clock)
  /\ written' = (k :> Asked(v, ttl, clock)) @@ written
  /\ op' = [name |-> "set", key |-> k, ret |-> None, computed |-> FALSE]
  /\ UNCHANGED <<qvars, xvars, clock>>

\* SimpleCache.delete(key)
delete(k) ==
  /\ cache' = Without(cache, {k})
  /\ written' = Without(written, {k})
  /\ op' = [name |-> "delete", key |-> k, ret |-> k \in DOMAIN cache, computed |-> FALSE]
  /\ UNCHANGED <<qvars, xvars, clock>>

\* SimpleCache.clear()
clear ==
  /\ cache' = <<>>
  /\ written' = <<>>
  /\ op' = [name |-> "clear", key |-> <<>>, ret |-> None, computed |-> FALSE]
  /\ UNCHANGED <<qvars, xvars, clock>>

\* SimpleCache.get_or_compute(key, compute_fn, ttl) with a compute_fn that
\* returns v: get, and when that gave None, compute_fn() and set
get_or_compute(k, v, ttl) ==
  /\ \E r \in {Lookup(cache, k, clock)} :
       IF r.ret # None
         THEN /\ cache' = r.cache
              /\ written' = written
              /\ op' = [name |-> "get_or_compute", key |-> k, ret |-> r.ret, computed |-> FALSE]
         ELSE /\ cache' = Store(r.cache, k, v, ttl, clock)
              /\ written' = (k :> Asked(v, ttl, clock)) @@ written
              /\ op' = [name |-> "get_or_compute", key |-> k, ret |-> v, computed |-> TRUE]
  /\ UNCHANGED <<qvars, xvars, clock>>

\* SimpleCache.invalidate_prefix(prefix)
invalidate_prefix(p) ==
  /\ \E keys_to_delete \in {{k \in DOMAIN cache : StartsWith(k, p)}} :
       /\ cache' = Without(cache, keys_to_delete)
       /\ op' = [name |-> "invalidate_prefix", key |-> p,
                 ret |-> Cardinality(keys_to_delete), computed |-> FALSE]
  /\ written' = Without(written, {k \in DOMAIN written : StartsWith(k, p)})
  /\ UNCHANGED <<qvars, xvars, clock>>

\* the except branch of process_task for a task_data with attempts = a, as far
\* as the retry time goes: delay, and retry_at = utcnow() + delay
ScheduleRetry(a) ==
  /\ op' = [name |-> "retry_delay", key |-> a,
            ret |-> [delay |-> RetryDelay(a), retry_at |-> clock + RetryDelay(a)],
            computed |-> FALSE]
  /\ UNCHANGED <<qvars, xvars, clock, cache, written>>

\* cls(max_workers=max_workers) whenever the lock is held, without the second
\* test of _instance
created_unchecked(g) ==
  [max_workers |-> getters[g].max_workers,
   serial |-> instance.serial + 1]

\* inside "with cls._lock": if _instance is still None it becomes
\* cls(max_workers=max_workers), else it stays; serial counts the TaskQueue
\* objects constructed so far
created(g) ==
  IF instance = NoInstance
    THEN [max_workers |-> getters[g].max_workers, serial |-> 1]
    ELSE instance

\* a thread calls TaskQueue.get_instance(max_workers=n)
get_instance(g, n) ==
  /\ getters[g].pc = "out"
  /\ getters' = [getters EXCEPT ![g] = [pc |-> "test", max_workers |-> n, ret |-> NoInstance]]
  /\ UNCHANGED <<qvars, cvars, threads, instance, lock, clock>>

\* get_task_queue(): get_instance with the default max_workers
get_task_queue(g) == get_instance(g, DefaultMaxWorkers)

\* if cls._instance is None: (outside the lock)
get_instance_test(g) ==
  /\ getters[g].pc = "test"
  /\ getters' = [getters EXCEPT ![g].pc = IF instance = NoInstance THEN "acquire" ELSE "return"]
  /\ UNCHANGED <<qvars, cvars, threads, instance, lock, clock>>

\* with cls._lock: the thread waits until the lock is free and takes it
get_instance_acquire(g) ==
  /\ getters[g].pc = "acquire"
  /\ lock = Unlocked
  /\ lock' = g
  /\ getters' = [getters EXCEPT ![g].pc = "locked"]
  /\ UNCHANGED <<qvars, cvars, threads, instance, clock>>

\* the body of the with block
get_instance_create(g) ==
  /\ getters[g].pc = "locked"
  /\ instance' = created(g)
  /\ getters' = [getters EXCEPT ![g].pc = "release"]
  /\ UNCHANGED <<qvars, cvars, threads, lock, clock>>

\* the with block is left and the lock released
get_instance_release(g) ==
  /\ getters[g].pc = "release"
  /\ lock' = Unlocked
  /\ getters' = [getters EXCEPT ![g].pc = "return"]
  /\ UNCHANGED <<qvars, cvars, threads, instance, clock>>

\* return cls._instance
get_instance_return(g) ==
  /\ getters[g].pc = "return"
  /\ getters' = [getters EXCEPT ![g].pc = "out", ![g].ret = instance]
  /\ UNCHANGED <<qvars, cvars, threads, instance, lock, clock>>

\* _get_task_status_response(task_id) of the status routes: the row is read
\* and, when its status is complete or error, deleted
get_task_status_response(id) ==
  /\ id \in DOMAIN tasks
  /\ tasks[id].status \in {COMPLETE, ERROR}
  /\ tasks' = [t \in DOMAIN tasks \ {id} |-> tasks[t]]
  /\ UNCHANGED <<task_handlers, max_retries, cvars, xvars, starters, running, pc, cur, seen, data, clock, runs, manual>>

\* retry_task(task_id)
retry_task(id) ==
  /\ id \in DOMAIN tasks
  /\ tasks' = [tasks EXCEPT ![id].status = PENDING, ![id].attempts = 0]
  /\ manual < MaxManual
  /\ manual' = manual + 1
  /\ UNCHANGED <<task_handlers, max_retries, cvars, xvars, starters, running, pc, cur, seen, data, clock, runs>>

\* _worker_loop: task = self.get_next_task().  A cascade commit inside
\* get_next_task expires what the session loaded, status of the returned task
\* included.
WorkerPoll(w) ==
  /\ pc[w] = "poll"
  /\ running
  /\ \E r \in {get_next_task(tasks)} :
       /\ tasks' = r.table
       /\ IF r.found = None
            THEN UNCHANGED <<pc, cur, seen>>
            ELSE /\ pc' = [pc EXCEPT ![w] = "claim"]
                 /\ cur' = [cur EXCEPT ![w] = r.found]
                 /\ seen' = [seen EXCEPT ![w] =
                              IF r.table = tasks THEN tasks[r.found].status ELSE "expired"]
  /\ UNCHANGED <<task_handlers, max_retries, cvars, xvars, starters, running, data, clock, runs, manual>>

\* _worker_loop: task.status = QUEUED; db.session.commit().  The session
\* writes the column unless it holds the same value as loaded.
WorkerMarkQueued(w) ==
  /\ pc[w] = "claim"
  /\ tasks' = IF seen[w] = QUEUED THEN tasks ELSE [tasks EXCEPT ![cur[w]].status = QUEUED]
  /\ pc' = [pc EXCEPT ![w] = "process"]
  /\ UNCHANGED <<task_handlers, max_retries, cvars, xvars, starters, running, cur, seen, data, clock, runs, manual>>

\* _worker_loop: while self._running is false at the top of the loop, and the
\* thread ends
WorkerExit(w) ==
  /\ pc[w] = "poll"
  /\ ~running
  /\ pc' = [pc EXCEPT ![w] = "off"]
  /\ UNCHANGED <<tasks, task_handlers, max_retries, cvars, xvars, starters, running, cur, seen, data, clock, runs, manual>>

\* the end of a loop iteration: the app context and its session are dropped
WorkerIdle(w) ==
  /\ pc' = [pc EXCEPT ![w] = "poll"]
  /\ cur' = [cur EXCEPT ![w] = None]
  /\ seen' = [seen EXCEPT ![w] = "none"]
  /\ data' = [data EXCEPT ![w] = NoData]

\* process_task up to the handler call: the commit above expired the task, so
\* task.result is read again; no handler -> ERROR, else PROCESSING with
\* attempts + 1 and started_at
ProcessBegin(w) ==
  /\ pc[w] = "process"
  /\ LET t == cur[w]
         task_data == tasks[t]
     IN IF task_data.task_type \notin task_handlers
          THEN /\ tasks' = [tasks EXCEPT ![t].status = ERROR,
                                         ![t].error = <<"No handler", task_data.task_type>>]
               /\ WorkerIdle(w)
               /\ UNCHANGED runs
          ELSE /\ tasks' = [tasks EXCEPT ![t].status = PROCESSING,
                                         ![t].attempts = task_data.attempts + 1,
                                         ![t].started_at = clock]
               /\ data' = [data EXCEPT ![w] = task_data]
               /\ runs' = [runs EXCEPT ![t] = Min(@ + 1, RunsCap)]
               /\ pc' = [pc EXCEPT ![w] = "handler"]
               /\ UNCHANGED <<cur, seen>>
  /\ UNCHANGED <<task_handlers, max_retries, cvars, xvars, starters, running, clock, manual>>

\* json.dumps({**task_data, ...}) with the new status: the row is written from
\* the task_data that process_task decoded before the handler ran
Written(task_data, status) == [task_data EXCEPT !.status = status]

\* a return path that compares the refreshed status with QUEUED
HandlerReturnIfQueued(w) ==
  /\ pc[w] = "handler"
  /\ tasks' = IF tasks[cur[w]].status = QUEUED
                THEN [tasks EXCEPT ![cur[w]] =
                        [Written(data[w], COMPLETE) EXCEPT !.completed_at = clock]]
                ELSE tasks
  /\ WorkerIdle(w)
  /\ UNCHANGED <<task_handlers, max_retries, cvars, xvars, starters, running, clock, runs, manual>>

\* The row after _run_summary_generation wrote it: result is replaced by
\* {"success": True} or {"error": str(e)}, so every other key is gone and a
\* later task_data.get(key, default) yields the default.
OwnResult(status, err) ==
  [status |-> status, task_type |-> "none", file_id |-> None, priority |-> None,
   depends_on |-> None, attempts |-> 0, max_attempts |-> max_retries,
   created_at |-> None, started_at |-> None, completed_at |-> None,
   retry_at |-> None, error |-> err, batch_id |-> NoBatch]

\* the ids of the tasks the generation routes create (uuid4 in the code)
DirectIds == 1..MaxDirect

\* the steps of the generation work, in order: the document's content is
\* fetched, the text is generated, the result is saved and committed
WorkSteps == <<"content", "generate", "save">>

\* summarize_file(file_id): a new row with status PROCESSING and no result,
\* and a thread that runs _run_summary_generation for it
summarize_file(id) ==
  /\ id \in DirectIds \ DOMAIN threads
  /\ tasks' = (id :> OwnResult(PROCESSING, NoError)) @@ tasks
  /\ threads' = (id :> "started") @@ threads
  /\ UNCHANGED <<qvars_but_tasks, cvars, instance, lock, getters, clock>>

\* the except branch without its write (the handler swallows the exception
\* and leaves the row as it is)
except_without_write(id) == tasks

\* except Exception: rollback, the row is read again and, if it exists, set
\* to ERROR with the exception's text as result
except_branch(id) ==
  IF id \in DOMAIN tasks
    THEN [tasks EXCEPT ![id] = OwnResult(ERROR, <<"exception">>)]
    ELSE tasks

\* the thread's first statement: the row is read; without a row the handler
\* logs and returns
summary_thread_begin(id) ==
  /\ id \in DOMAIN threads
  /\ threads[id] = "started"
  /\ threads' = [threads EXCEPT ![id] =
                   IF id \in DOMAIN tasks THEN WorkSteps[1] ELSE "returned"]
  /\ UNCHANGED <<qvars, cvars, instance, lock, getters, clock>>

\* one step of the generation work in the thread of task id: it succeeds
\* (ok) and the next step follows, the last one writing COMPLETE, or it
\* raises and the except branch ends the handler
summary_thread_step(id, ok) ==
  /\ id \in DOMAIN threads
  /\ \E i \in DOMAIN WorkSteps :
       /\ threads[id] = WorkSteps[i]
       /\ IF ~ok
            THEN /\ tasks' = except_branch(id)
                 /\ threads' = [threads EXCEPT ![id] = "returned"]
            ELSE IF i < Len(WorkSteps)
              THEN /\ threads' = [threads EXCEPT ![id] = WorkSteps[i + 1]]
                   /\ UNCHANGED tasks
              ELSE /\ tasks' = [tasks EXCEPT ![id] = OwnResult(COMPLETE, NoError)]
                   /\ threads' = [threads EXCEPT ![id] = "returned"]
  /\ UNCHANGED <<qvars_but_tasks, cvars, instance, lock, getters, clock>>

\* _run_summary_generation as the handler of worker w's task, up to its
\* return: it records the outcome in the task row itself, COMPLETE when the
\* summary was generated, ERROR when anything in it raised, and returns
\* normally either way
run_summary_generation(w, ok) ==
  /\ pc[w] = "handler"
  /\ tasks' = [tasks EXCEPT ![cur[w]] =
                 IF ok THEN OwnResult(COMPLETE, NoError)
                       ELSE OwnResult(ERROR, <<"exception">>)]
  /\ pc' = [pc EXCEPT ![w] = "handled"]
  /\ UNCHANGED <<task_handlers, max_retries, cvars, xvars, starters, running, cur, seen, data, clock, runs, manual>>

\* the handler returned: refresh, then COMPLETE if the row is still PROCESSING
HandlerReturn(w) ==
  /\ pc[w] \in {"handler", "handled"}
  /\ tasks' = IF tasks[cur[w]].status = PROCESSING
                THEN [tasks EXCEPT ![cur[w]] =
                        [Written(data[w], COMPLETE) EXCEPT !.completed_at = clock]]
                ELSE tasks
  /\ WorkerIdle(w)
  /\ UNCHANGED <<task_handlers, max_retries, cvars, xvars, starters, running, clock, runs, manual>>

\* the row the except branch of process_task writes
Failed(task_data) ==
  IF task_data.attempts < task_data.max_attempts
    THEN [Written(task_data, RETRYING) EXCEPT
            !.retry_at = clock + RetryDelay(task_data.attempts)]
    ELSE [Written(task_data, ERROR) EXCEPT !.error = <<"exception">>]

\* a process_task without the except branch inside a loop without one: the
\* exception ends the thread and the row stays as it is
HandlerRaiseEscapes(w) ==
  /\ pc[w] = "handler"
  /\ pc' = [pc EXCEPT ![w] = "off"]
  /\ UNCHANGED <<tasks, task_handlers, max_retries, cvars, xvars, starters, running, cur, seen, data, clock, runs, manual>>

\* the handler raised: RETRYING while task_data's attempts < max_attempts,
\* else ERROR
HandlerRaise(w) ==
  /\ pc[w] = "handler"
  /\ tasks' = [tasks EXCEPT ![cur[w]] = Failed(data[w])]
  /\ WorkerIdle(w)
  /\ UNCHANGED <<task_handlers, max_retries, cvars, xvars, starters, running, clock, runs, manual>>

\* one step of worker thread w
WorkerStep(w) ==
  \/ WorkerPoll(w)
  \/ WorkerMarkQueued(w)
  \/ ProcessBegin(w)
  \/ HandlerReturn(w)
  \/ HandlerRaise(w)

\* the same with handlers that return normally
WorkerStepOk(w) ==
  \/ WorkerPoll(w)
  \/ WorkerMarkQueued(w)
  \/ ProcessBegin(w)
  \/ HandlerReturn(w)

\* the same with handlers that raise on every call
WorkerStepFail(w) ==
  \/ WorkerPoll(w)
  \/ WorkerMarkQueued(w)
  \/ ProcessBegin(w)
  \/ HandlerRaise(w)

\* ---------------------------------------------------------- specifications
\* The queue with producers, the retry route and the workers.
Next ==
  \/ \E ty \in TaskTypes, d \in {None} \cup DOMAIN tasks :
       enqueue(ty, 7, DefaultPriority, d)
  \/ \E n \in 1 .. MaxWorkers : start_workers(n)
  \/ \E id \in TaskIds : retry_task(id)
  \/ \E w \in Workers : WorkerStep(w)

Spec == Init /\ [][Next]_vars

\* No manual retry; the queue is built with any max_retries up to the default.
NextAuto ==
  \/ \E d \in {None} \cup DOMAIN tasks : enqueue("summary", 7, DefaultPriority, d)
  \/ \E n \in 1 .. MaxWorkers : start_workers(n)
  \/ \E w \in Workers : WorkerStep(w)

SpecAuto == InitWith(1 .. DefaultMaxRetries) /\ [][NextAuto]_vars

\* No manual retry, and every handler returns normally.
NextOk ==
  \/ \E d \in {None} \cup DOMAIN tasks : enqueue("summary", 7, DefaultPriority, d)
  \/ \E n \in 1 .. MaxWorkers : start_workers(n)
  \/ \E w \in Workers : WorkerStepOk(w)

SpecOk == Init /\ [][NextOk]_vars

\* The same, with worker threads that keep running.
FairOk == Init /\ [][NextOk]_vars /\ \A w \in Workers : WF_vars(WorkerStepOk(w))

\* One worker; tasks of any type, file and priority.
NextOrder ==
  \/ \E ty \in TaskTypes, f \in FileIds, p \in Priorities, d \in {None} \cup DOMAIN tasks :
       enqueue(ty, f, p, d)
  \/ start_workers(1)
  \/ WorkerStep(1)

SpecOrder == Init /\ [][NextOrder]_vars

\* enqueue_chain of ChainLen tasks, one worker, handlers that return normally;
\* the worker thread keeps running.
NextChain ==
  \/ enqueue_chain("summary", 7, DefaultPriority)
  \/ Tick(1, MaxClock)
  \/ start_workers(1)
  \/ WorkerStepOk(1)

FairChain == Init /\ [][NextChain]_vars /\ WF_vars(WorkerStepOk(1))

\* Handlers that raise on every call, no manual retry; the worker threads keep
\* running and time passes, a retry delay at a time.
NextFail ==
  \/ \E d \in {None} \cup DOMAIN tasks : enqueue("summary", 7, DefaultPriority, d)
  \/ Tick(BaseDelay, Horizon)
  \/ \E n \in 1 .. MaxWorkers : start_workers(n)
  \/ \E w \in Workers : WorkerStepFail(w)

FairFail ==
  /\ Init
  /\ [][NextFail]_vars
  /\ WF_vars(Tick(BaseDelay, Horizon))
  /\ \A w \in Workers : WF_vars(WorkerStepFail(w))

\* Two workers, handlers that return or raise, a queue built with any
\* max_retries up to the default, and the retry route called for tasks that
\* are in Error; the worker threads keep running.
NextRetry ==
  \/ enqueue("summary", 7, DefaultPriority, None)
  \/ \E n \in 1 .. MaxWorkers : start_workers(n)
  \/ \E id \in TaskIds : id \in DOMAIN tasks /\ tasks[id].status = ERROR /\ retry_task(id)
  \/ \E w \in Workers : WorkerStep(w)

FairRetry ==
  /\ InitWith(1 .. DefaultMaxRetries)
  /\ [][NextRetry]_vars
  /\ \A w \in Workers : WF_vars(WorkerStep(w))

\* Imports of batches next to a task of enqueue, the retry route, and the
\* workers the import starts.
NextBatch ==
  \/ \E b \in BatchIds, ids \in SUBSET (1 .. MaxTasks) : import_batch(b, ids)
  \/ enqueue("summary", 7, DefaultPriority, None)
  \/ \E id \in TaskIds : retry_task(id)
  \/ \E w \in Workers : WorkerStep(w)

SpecBatch == Init /\ [][NextBatch]_vars

\* One worker whose handler for "summary" is _run_summary_generation, next to
\* a handler that returns without touching the task row; no handler raises.
NextSummary ==
  \/ \E d \in {None} \cup DOMAIN tasks : enqueue("summary", 7, DefaultPriority, d)
  \/ Tick(1, MaxClock)
  \/ start_workers(1)
  \/ WorkerStepOk(1)
  \/ \E ok \in BOOLEAN : run_summary_generation(1, ok)

SpecSummary == Init /\ [][NextSummary]_vars

\* Requests that call start_workers at the same time, each for HalfWorkers
\* loops; stop_workers is never called.
NextStart ==
  \/ \E d \in {None} \cup DOMAIN tasks : enqueue("summary", 7, DefaultPriority, d)
  \/ \E c \in Callers : start_workers_test(c)
  \/ \E c \in Callers : start_workers_spawn(c, HalfWorkers)
  \/ \E w \in Workers : WorkerStepOk(w)

SpecStart == Init /\ [][NextStart]_vars

\* One caller that starts HalfWorkers loops, stops them and, once the joins
\* of the stop have returned, starts them again; handlers return normally and
\* the threads keep running.
NextStop ==
  \/ \E d \in {None} \cup DOMAIN tasks : enqueue("summary", 7, DefaultPriority, d)
  \/ Joined /\ start_workers_test("import")
  \/ start_workers_spawn("import", HalfWorkers)
  \/ stop_workers
  \/ \E w \in Workers : WorkerStepOk(w)
  \/ \E w \in Workers : WorkerExit(w)

FairStop ==
  /\ Init
  /\ [][NextStop]_vars
  /\ \A w \in Workers : WF_vars(WorkerStepOk(w) \/ WorkerExit(w))

\* The cache under its callers, with a value or None from compute_fn and the
\* default or a shorter ttl, while time passes.
NextCache ==
  \/ \E k \in CacheKeys : get(k)
  \/ \E k \in CacheKeys, v \in Values, ttl \in {None, ShortTtl} : set(k, v, ttl)
  \/ \E k \in CacheKeys : delete(k)
  \/ clear
  \/ \E k \in CacheKeys, v \in Values \cup {None}, ttl \in {None, ShortTtl} :
       get_or_compute(k, v, ttl)
  \/ \E p \in Prefixes : invalidate_prefix(p)
  \/ Tick(CacheStep, CacheHorizon)

SpecCache == Init /\ [][NextCache]_vars

\* Retries scheduled for any attempts counter up to MaxAttempt, at any time.
NextDelay ==
  \/ \E a \in 0 .. MaxAttempt : ScheduleRetry(a)
  \/ Tick(1, MaxClock)

SpecDelay == Init /\ [][NextDelay]_vars

\* enqueue_chain of ChainLen tasks whose handlers raise on every call, no
\* manual retry; the worker threads keep running and time passes, a retry
\* delay at a time.
NextChainFail ==
  \/ enqueue_chain("summary", 7, DefaultPriority)
  \/ Tick(BaseDelay, Horizon)
  \/ \E n \in 1 .. MaxWorkers : start_workers(n)
  \/ \E w \in Workers : WorkerStepFail(w)

FairChainFail ==
  /\ Init
  /\ [][NextChainFail]_vars
  /\ WF_vars(Tick(BaseDelay, Horizon))
  /\ \A w \in Workers : WF_vars(WorkerStepFail(w))

\* enqueue_chain of ChainLen tasks of either type on a queue built with
\* max_retries 1 or the default, handlers that return or raise, no manual
\* retry.
NextCascade ==
  \/ \E ty \in TaskTypes : enqueue_chain(ty, 7, DefaultPriority)
  \/ \E n \in 1 .. MaxWorkers : start_workers(n)
  \/ \E w \in Workers : WorkerStep(w)

SpecCascade == InitWith({1, DefaultMaxRetries}) /\ [][NextCascade]_vars

\* Imports of batches whose tasks are handled by _run_summary_generation or
\* by a handler that returns without touching the task row.
NextImport ==
  \/ \E b \in BatchIds, ids \in SUBSET (1 .. MaxTasks) : import_batch(b, ids)
  \/ \E w \in Workers : WorkerStepOk(w)
  \/ \E w \in Workers, ok \in BOOLEAN : run_summary_generation(w, ok)

SpecImport == Init /\ [][NextImport]_vars

\* Tasks with and without predecessor, one worker whose handlers return
\* normally and that keeps running, and a client that polls the status
\* route for any task.
NextPrune ==
  \/ \E d \in {None} \cup DOMAIN tasks : enqueue("summary", 7, DefaultPriority, d)
  \/ start_workers(1)
  \/ WorkerStepOk(1)
  \/ \E id \in TaskIds : get_task_status_response(id)

FairPrune == Init /\ [][NextPrune]_vars /\ WF_vars(WorkerStepOk(1))

\* Tasks started directly by the summary route, each in its own thread, every
\* step of the work succeeding or raising, and a client polling the status
\* route.
NextDirect ==
  \/ \E id \in DirectIds : summarize_file(id)
  \/ \E id \in DirectIds : summary_thread_begin(id)
  \/ \E id \in DirectIds, ok \in BOOLEAN : summary_thread_step(id, ok)
  \/ \E id \in DirectIds : get_task_status_response(id)

SpecDirect == Init /\ [][NextDirect]_vars

\* Threads that call get_instance, with any max_workers, or get_task_queue,
\* at any time and as often as they like, every statement of a call a step.
NextInstance ==
  \/ \E g \in Getters, n \in 1..MaxWorkers : get_instance(g, n)
  \/ \E g \in Getters : get_task_queue(g)
  \/ \E g \in Getters : get_instance_test(g)
  \/ \E g \in Getters : get_instance_acquire(g)
  \/ \E g \in Getters : get_instance_create(g)
  \/ \E g \in Getters : get_instance_release(g)
  \/ \E g \in Getters : get_instance_return(g)

SpecInstance == Init /\ [][NextInstance]_vars

\* ---------------------------------------------------------------- claims
\* worker w's get_next_task returns a task in this step
Selects(w) == pc[w] = "poll" /\ pc'[w] = "claim"

\* worker w is inside the handler call of process_task for task t
InHandler(w, t) == pc[w] = "handler" /\ cur[w] = t

\* the tasks the contract calls eligible at a poll: Pending, or Retrying with
\* retry_at elapsed, and the dependency, if any, Complete
Eligible(t) ==
  /\ t \in DOMAIN tasks
  /\ \/ tasks[t].status = PENDING
     \/ tasks[t].status = RETRYING /\ tasks[t].retry_at <= clock
  /\ \/ tasks[t].depends_on = None
     \/ DependencyComplete(tasks, tasks[t].depends_on)

\* C1: at most one worker is inside the handler call of process_task for the
\* same task id at any instant.
C1_OneExecutorPerTask ==
  \A w1, w2 \in Workers, t \in TaskIds :
    (InHandler(w1, t) /\ InHandler(w2, t)) => w1 = w2

\* C2: a task that is enqueued once, never manually retried and whose handler
\* returns normally has its handler invoked at most once (checked where there
\* is no manual retry and handlers only return).
C2_HandlerInvokedOnce == \A t \in DOMAIN runs : runs[t] <= 1

\* C3: with workers running and no manual retry, a task whose handler raises
\* on every call eventually reaches Error with attempts = max_attempts.
C3_AlwaysFailingReachesError ==
  \A t \in TaskIds :
    [](((t \in DOMAIN tasks) /\ running /\ tasks[t].depends_on = None)
         => <>((t \in DOMAIN tasks) /\ tasks[t].status = ERROR
                 /\ tasks[t].attempts = tasks[t].max_attempts))

\* C4: in every reachable state and for every task, attempts <= max_attempts.
C4_AttemptsWithinMax ==
  \A t \in DOMAIN tasks : tasks[t].attempts <= tasks[t].max_attempts

\* C5: get_next_task returns a task that has a depends_on reference only if
\* its predecessor's status is Complete at that poll.
C5_DependencyGate ==
  [][\A w \in Workers :
       Selects(w) =>
         \/ tasks[cur'[w]].depends_on = None
         \/ /\ tasks[cur'[w]].depends_on \in DOMAIN tasks
            /\ tasks[tasks[cur'[w]].depends_on].status = COMPLETE]_vars

\* a worker took a dependent task from get_next_task and runs its handler
C5_Witness ==
  \E w \in Workers :
    /\ pc[w] = "handler"
    /\ tasks[cur[w]].depends_on # None
    /\ tasks[tasks[cur[w]].depends_on].status = COMPLETE

\* C6: once A is Error, its dependent B is never one whose handler was invoked
\* (the part of the claim a finite run decides).
C6_DependentOfFailedNeverRuns ==
  \A b \in DOMAIN tasks :
    (tasks[b].depends_on # None /\ tasks[tasks[b].depends_on].status = ERROR)
      => runs[b] = 0

\* C7: with one worker and handlers that return normally, a task of a chain
\* is inside its handler only when every task enqueued before it in the chain
\* is Complete, with started_at >= that task's completed_at, and once the
\* whole chain is enqueued and the worker runs, every task of it eventually
\* is Complete.
C7_ChainInOrder ==
  /\ [](\A w \in Workers, t \in TaskIds :
          InHandler(w, t) =>
            \A u \in DOMAIN tasks :
              tasks[u].created_at < tasks[t].created_at
                => /\ tasks[u].status = COMPLETE
                   /\ tasks[t].started_at >= tasks[u].completed_at)
  /\ [](((Cardinality(DOMAIN tasks) = ChainLen) /\ running)
          => <>(\A t \in DOMAIN tasks : tasks[t].status = COMPLETE))

\* the last task of the chain completed, after its predecessors, later than
\* the first one did
C7_Witness ==
  /\ Cardinality(DOMAIN tasks) = ChainLen
  /\ \A t \in DOMAIN tasks : tasks[t].status = COMPLETE
  /\ \E t \in DOMAIN tasks :
       /\ tasks[t].depends_on # None
       /\ tasks[tasks[t].depends_on].depends_on # None
       /\ tasks[t].completed_at > tasks[tasks[t].depends_on].completed_at

\* C8: get_next_task never returns a task while another eligible task with a
\* strictly lower priority number exists.
C8_LowestPriorityFirst ==
  [][\A w \in Workers :
       Selects(w) =>
         \A u \in TaskIds : Eligible(u) => tasks[u].priority >= tasks[cur'[w]].priority]_vars

\* C9: among eligible tasks of equal priority, get_next_task never returns a
\* task while one enqueued earlier exists.
C9_FifoWithinPriority ==
  [][\A w \in Workers :
       Selects(w) =>
         \A u \in TaskIds :
           (Eligible(u) /\ tasks[u].priority = tasks[cur'[w]].priority)
             => tasks[u].created_at >= tasks[cur'[w]].created_at]_vars

\* C10: a Retrying task whose retry_at has elapsed is eventually selected and
\* its handler invoked again, with workers polling and no manual retry.
C10_RetryingPickedUp ==
  \A t \in TaskIds :
    [](((t \in DOMAIN tasks) /\ running /\ tasks[t].status = RETRYING /\ tasks[t].retry_at <= clock)
         => <>(\E w \in Workers : InHandler(w, t)))

\* C11: get_next_task only returns a task whose status at that poll is Pending,
\* or Retrying with retry_at elapsed; never one that is Queued, Processing,
\* Complete or Error.
C11_SelectsOnlyUnclaimed ==
  [][\A w \in Workers :
       Selects(w) =>
         \/ tasks[cur'[w]].status = PENDING
         \/ /\ tasks[cur'[w]].status = RETRYING
            /\ tasks[cur'[w]].retry_at <= clock]_vars

\* C12: after a handler raised for a task, the stored attempts counter counts
\* the failed executions: a task left Retrying or Error by a raising handler,
\* executed k times with no manual retry, has attempts = min(k, max_attempts),
\* and a Retrying one has retry_at set.
C12_FailureCountsAttempt ==
  \A t \in DOMAIN tasks :
    (/\ \/ tasks[t].status = RETRYING
        \/ tasks[t].status = ERROR /\ tasks[t].error = <<"exception">>
     /\ runs[t] < RunsCap)
      => /\ tasks[t].attempts = Min(runs[t], tasks[t].max_attempts)
         /\ tasks[t].status = RETRYING => tasks[t].retry_at > tasks[t].created_at

\* C13: retry_task on a task in Error leaves it Pending with attempts 0, and
\* such a task (it ran before, has no predecessor and a registered handler),
\* with the workers running, eventually has its handler invoked again:
\* process_task marks it Processing once more.
C13_RetryRunsAgain ==
  /\ [][\A t \in DOMAIN tasks :
          (manual' = manual + 1 /\ tasks[t].status = ERROR /\ tasks'[t] # tasks[t])
            => tasks'[t].status = PENDING /\ tasks'[t].attempts = 0]_vars
  /\ \A t \in TaskIds :
       [](( /\ t \in DOMAIN tasks
            /\ running
            /\ manual > 0
            /\ tasks[t].status = PENDING
            /\ runs[t] >= 1
            /\ tasks[t].depends_on = None
            /\ tasks[t].task_type \in task_handlers )
          => <>((t \in DOMAIN tasks) /\ tasks[t].status = PROCESSING))

\* C14: in every reachable state and for every batch id, the result of
\* get_batch_status has complete + error + processing + pending = total, and
\* total is the length of the task list it returns.
C14_BatchCountsAddUp ==
  \A b \in BatchIds :
    LET r == get_batch_status(tasks, b)
    IN /\ r.complete + r.error + r.processing + r.pending = r.total
       /\ r.total = Len(r.tasks)

\* a batch of two observed while one of its tasks is Complete and the other is
\* in a status that has no counter of its own
C14_Witness ==
  \E b \in BatchIds, t, u \in DOMAIN tasks :
    /\ tasks[t].batch_id = b /\ tasks[t].status = COMPLETE
    /\ tasks[u].batch_id = b /\ tasks[u].status \in {QUEUED, RETRYING}
    /\ get_batch_status(tasks, b).total = MaxTasks

\* C15: the id that enqueue returns for a task without dependency has
\* get_task_status pending with attempts 0 at once, and with a registered
\* handler that returns and the workers running, get_task_status of it
\* eventually is complete.
C15_EnqueuedCompletes ==
  /\ [][\A id \in DOMAIN tasks' \ DOMAIN tasks :
          tasks'[id].depends_on = None
            => /\ get_task_status(tasks', id).status = PENDING
               /\ get_task_status(tasks', id).attempts = 0]_vars
  /\ \A t \in TaskIds :
       [](( /\ t \in DOMAIN tasks
            /\ running
            /\ tasks[t].depends_on = None
            /\ tasks[t].task_type \in task_handlers )
          => <>(get_task_status(tasks, t).id = t
                  /\ get_task_status(tasks, t).status = COMPLETE))

\* a task without dependency ran once and its status reads complete
C15_Witness ==
  \E t \in DOMAIN tasks :
    /\ tasks[t].depends_on = None
    /\ runs[t] = 1
    /\ get_task_status(tasks, t).status = COMPLETE

\* C16: a task whose type has no registered handler never has a handler
\* invoked; the step in which a worker processes it leaves it Error with the
\* missing-handler message and attempts unchanged; and once it is Error it
\* stays Error in every step that is not a manual retry.
C16_NoHandlerIsFinalError ==
  [][\A t \in DOMAIN tasks :
       tasks[t].task_type \notin task_handlers =>
         /\ runs'[t] = 0
         /\ (\E w \in Workers : pc[w] = "process" /\ cur[w] = t /\ pc'[w] # "process")
              => /\ tasks'[t].status = ERROR
                 /\ tasks'[t].error = <<"No handler", tasks[t].task_type>>
                 /\ tasks'[t].attempts = tasks[t].attempts
         /\ (tasks[t].status = ERROR /\ manual' = manual)
              => tasks'[t].status = ERROR]_vars

\* C17: once a task's status is Complete or Error, every step that is not a
\* manual retry leaves its status as it is.
C17_TerminalStatusKept ==
  [][\A t \in DOMAIN tasks :
       (tasks[t].status \in {COMPLETE, ERROR} /\ manual' = manual)
         => tasks'[t].status = tasks[t].status]_vars

\* C18: whenever a registered handler returns normally, the task's status is
\* Complete when process_task returns (checked where no handler raises, so
\* every way out of the handler is a normal return).
C18_ReturnMeansComplete ==
  [][\A w \in Workers :
       (pc[w] \in {"handler", "handled"} /\ pc'[w] = "poll")
         => tasks'[cur[w]].status = COMPLETE]_vars

\* C19: whenever a handler raises (here every handler call ends by raising),
\* that step turns the task Retrying or Error, and the worker that ran it is
\* back at the top of its loop with the running flag still set.
C19_RaiseKeepsWorkerLooping ==
  [][\A w \in Workers :
       (pc[w] = "handler" /\ pc'[w] # "handler")
         => /\ tasks'[cur[w]].status \in {RETRYING, ERROR}
            /\ pc'[w] = "poll"
            /\ running']_vars

\* the only worker started is inside the handler of one task after the handler
\* of another task raised in it
C19_Witness ==
  /\ pc[1] = "handler"
  /\ \A w \in Workers \ {1} : pc[w] = "off"
  /\ \E t \in DOMAIN tasks :
       t # cur[1] /\ tasks[t].status = RETRYING /\ runs[t] = 1

\* C20: after any calls of start_workers, concurrent ones included, with no
\* stop_workers, the number of live worker loops is at most the num_workers
\* that was asked for.
C20_StartWorkersIdempotent ==
  Cardinality({w \in Workers : pc[w] # "off"}) <= HalfWorkers

\* C21: while the running flag is cleared (stop_workers signalled, no start
\* since), no step turns a task Queued; a thread inside a handler is never
\* ended there; and every worker loop eventually exits.
C21_StopPreventsClaims ==
  /\ [][~running =>
          \A t \in DOMAIN tasks : tasks'[t].status = QUEUED => tasks[t].status = QUEUED]_vars
  /\ [][\A w \in Workers : pc[w] \in {"handler", "handled"} => pc'[w] # "off"]_vars
  /\ \A w \in Workers : [](~running => <>(pc[w] = "off" \/ running))

\* C30: after stop_workers and a start_workers for HalfWorkers loops that
\* follows it, at most HalfWorkers loops are outside a handler, polling for
\* tasks or claiming one.
C30_RestartKeepsWorkerCount ==
  Cardinality({w \in Workers : pc[w] \notin {"off", "handler", "handled"}}) <= HalfWorkers

\* C22: enqueue_chain creates one task per element of its list, each Pending
\* with attempts 0 when created; in the order of creation (the order of the
\* returned ids) the first task has no depends_on and every other task's
\* depends_on is the id of the task created just before it.
C22_ChainIsWired ==
  /\ [][\A id \in DOMAIN tasks' \ DOMAIN tasks :
          /\ DOMAIN tasks' = DOMAIN tasks \cup {id}
          /\ \A u \in DOMAIN tasks : tasks'[u] = tasks[u]
          /\ tasks'[id].status = PENDING
          /\ tasks'[id].attempts = 0]_vars
  /\ [](\A t \in DOMAIN tasks :
          LET before == {u \in DOMAIN tasks : tasks[u].created_at < tasks[t].created_at}
          IN IF before = {}
               THEN tasks[t].depends_on = None
               ELSE /\ tasks[t].depends_on \in before
                    /\ \A u \in before :
                         tasks[u].created_at <= tasks[tasks[t].depends_on].created_at)

\* the whole chain was just created: ChainLen tasks, all Pending, the last one
\* two links away from the first
C22_Witness ==
  /\ Cardinality(DOMAIN tasks) = ChainLen
  /\ \A t \in DOMAIN tasks : tasks[t].status = PENDING /\ tasks[t].attempts = 0
  /\ \E t \in DOMAIN tasks :
       /\ tasks[t].depends_on # None
       /\ tasks[tasks[t].depends_on].depends_on # None
       /\ tasks[tasks[tasks[t].depends_on].depends_on].depends_on = None

\* C23: a call of retry_task for a task whose status is not Error leaves that
\* task's status and attempts as they are.
C23_RetryOnlyFromError ==
  [][\A t \in DOMAIN tasks :
       (manual' = manual + 1 /\ tasks[t].status # ERROR)
         => /\ tasks'[t].status = tasks[t].status
            /\ tasks'[t].attempts = tasks[t].attempts]_vars

\* the entry the callers' sets left for key k is there and the cache's TTL
\* has not elapsed since that set
Unexpired(k) ==
  k \in DOMAIN written /\ clock - written[k].timestamp < DefaultTtl

\* C24: a call of get(k) returns the value most recently set for k when less
\* than the cache's TTL has elapsed since the set and k was not deleted,
\* cleared or prefix-invalidated since, and None otherwise; and when the get
\* finds an expired entry the cache no longer holds it afterwards.
C24_GetReturnsFreshValue ==
  [][(op'.name = "get" /\ clock' = clock) =>
       /\ op'.ret = IF Unexpired(op'.key) THEN written[op'.key].value ELSE None
       /\ (op'.key \in DOMAIN cache /\ ~Unexpired(op'.key))
            => op'.key \notin DOMAIN cache']_vars

\* a get found the entry of its key expired, exactly the TTL after the set,
\* returned None and removed it
C24_Witness ==
  /\ op.name = "get"
  /\ op.ret = None
  /\ op.key \in DOMAIN written
  /\ clock - written[op.key].timestamp = DefaultTtl
  /\ op.key \notin DOMAIN cache

\* C25: a call of get_or_compute(k, f) invokes f only when k has no unexpired
\* entry, and returns the stored value when it has one.
C25_ComputeOnlyWhenAbsent ==
  [][(op'.name = "get_or_compute" /\ clock' = clock) =>
       /\ op'.computed => ~Unexpired(op'.key)
       /\ (~op'.computed) => op'.ret = cache[op'.key].value]_vars

\* C26: a call of invalidate_prefix(p) removes the entries whose key begins
\* with the characters of p and no other, leaves the entries that stay as
\* they were, and returns how many it removed.
C26_PrefixInvalidationExact ==
  [][(op'.name = "invalidate_prefix" /\ clock' = clock) =>
       LET p == op'.key
           begins == {k \in DOMAIN cache :
                        Len(p) <= Len(k) /\ \A i \in 1 .. Len(p) : k[i] = p[i]}
       IN /\ DOMAIN cache' = DOMAIN cache \ begins
          /\ \A k \in DOMAIN cache' : cache'[k] = cache[k]
          /\ op'.ret = Cardinality(begins)]_vars

\* invalidate_prefix("u") returned 2 and left the entry of a key that holds
\* none of its characters
C26_Witness ==
  /\ op.name = "invalidate_prefix"
  /\ op.key = <<"u">>
  /\ op.ret = 2
  /\ DOMAIN cache = {<<"p", "1">>}

\* C29: the delay scheduled for attempts counter a is min(60 * 2^a, 3600)
\* seconds, at least 60 and at most 3600, and a delay scheduled for a counter
\* that is not smaller is not shorter.
C29_BackoffBounded ==
  /\ [](op.name = "retry_delay" =>
          /\ op.ret.delay = (IF 60 * 2^op.key < 3600 THEN 60 * 2^op.key ELSE 3600)
          /\ op.ret.delay >= 60
          /\ op.ret.delay <= 3600
          /\ op.ret.retry_at <= clock + op.ret.delay)
  /\ [][(op.name = "retry_delay" /\ op'.name = "retry_delay" /\ op.key <= op'.key)
          => op.ret.delay <= op'.ret.delay]_vars

\* a retry was scheduled for a counter at which the doubling is past the cap
C29_Witness ==
  /\ op.name = "retry_delay"
  /\ 60 * 2^op.key > 3600
  /\ op.ret.delay = 3600

\* C27: in a chain whose handlers raise on every call, with the workers
\* running and no manual retry, no task that has a predecessor ever has its
\* handler invoked, and every such task eventually is Error.
C27_FailedChainDrains ==
  /\ [](\A t \in DOMAIN tasks : tasks[t].depends_on # None => runs[t] = 0)
  /\ \A t \in TaskIds :
       [](((t \in DOMAIN tasks) /\ running /\ tasks[t].depends_on # None)
            => <>((t \in DOMAIN tasks) /\ tasks[t].status = ERROR))

\* the first task of the chain, the one without predecessor, is Error
RootFailed ==
  \E a \in DOMAIN tasks : tasks[a].depends_on = None /\ tasks[a].status = ERROR

\* C28: for a chain [A, B, C], no step taken while A is Error invokes the
\* handler of B or of C (the part of the claim a finite run decides; the
\* other part is that B and C then eventually are Error).
C28_CascadeIsTransitive ==
  [][\A w \in Workers :
       (pc[w] = "process" /\ pc'[w] = "handler" /\ tasks[cur[w]].depends_on # None)
         => ~RootFailed]_vars

\* C38: a get of a key whose last set gave a ttl returns None once that ttl
\* has elapsed since the set, also when the cache's default TTL has not.
C38_CustomTtlExpires ==
  [][(/\ op'.name = "get"
      /\ clock' = clock
      /\ op'.key \in DOMAIN written
      /\ clock - written[op'.key].timestamp >= written[op'.key].ttl)
       => op'.ret = None]_vars

\* C31: get_batch_status counts every task of the batch in exactly one
\* bucket: complete, error and processing hold the tasks of that status and
\* pending holds all others (Pending, Queued, Retrying), each task has one
\* entry in the list, and for a batch id without tasks all counters are zero
\* and the list is empty.
C31_BatchBuckets ==
  \A b \in BatchIds :
    LET r == get_batch_status(tasks, b)
        of == {t \in DOMAIN tasks : tasks[t].batch_id = b}
    IN /\ r.complete = Cardinality({t \in of : tasks[t].status = COMPLETE})
       /\ r.error = Cardinality({t \in of : tasks[t].status = ERROR})
       /\ r.processing = Cardinality({t \in of : tasks[t].status = PROCESSING})
       /\ r.pending = Cardinality({t \in of : tasks[t].status \in {PENDING, QUEUED, RETRYING}})
       /\ {r.tasks[i].id : i \in 1 .. Len(r.tasks)} = of
       /\ Len(r.tasks) = Cardinality(of)
       /\ \A i \in 1 .. Len(r.tasks) : r.tasks[i].status = tasks[r.tasks[i].id].status
       /\ of = {} => r = [total |-> 0, complete |-> 0, error |-> 0, processing |-> 0,
                          pending |-> 0, tasks |-> <<>>]

\* one batch is read with a Queued task counted as pending next to one in
\* processing, the other batch id has no task
C31_Witness ==
  \E b, e \in BatchIds :
    /\ get_batch_status(tasks, e).total = 0
    /\ get_batch_status(tasks, e).tasks = <<>>
    /\ get_batch_status(tasks, b).pending = 1
    /\ get_batch_status(tasks, b).processing = 1
    /\ \E t \in DOMAIN tasks : tasks[t].batch_id = b /\ tasks[t].status = QUEUED

\* C32: no step changes or removes a scheduling field of an existing task
\* (task_type, file_id, priority, depends_on, batch_id, max_attempts,
\* created_at), and no step lowers the total that get_batch_status reports
\* for a batch.
C32_SchedulingFieldsKept ==
  [][/\ \A t \in DOMAIN tasks \cap DOMAIN tasks' :
          /\ tasks'[t].task_type = tasks[t].task_type
          /\ tasks'[t].file_id = tasks[t].file_id
          /\ tasks'[t].priority = tasks[t].priority
          /\ tasks'[t].depends_on = tasks[t].depends_on
          /\ tasks'[t].batch_id = tasks[t].batch_id
          /\ tasks'[t].max_attempts = tasks[t].max_attempts
          /\ tasks'[t].created_at = tasks[t].created_at
     /\ \A b \in BatchIds :
          get_batch_status(tasks', b).total >= get_batch_status(tasks, b).total]_vars

\* C33: with no manual retry, the attempts that get_task_status reports for
\* a task is the number of times its handler was invoked, and a task that is
\* Complete after its first execution still has its started_at.
C33_AttemptsCountRuns ==
  \A t \in DOMAIN tasks :
    runs[t] < RunsCap =>
      /\ get_task_status(tasks, t).attempts = runs[t]
      /\ (tasks[t].status = COMPLETE /\ runs[t] = 1) => tasks[t].started_at # None

\* C35: get_task_status reports an error only for a task whose status is
\* Error.
C35_ErrorOnlyWhenFailed ==
  \A t \in DOMAIN tasks :
    get_task_status(tasks, t).error # NoError => get_task_status(tasks, t).status = ERROR

\* C34: a Pending task whose predecessor completed and whose predecessor's
\* row was then deleted by the status route is, with the worker running,
\* eventually dispatched or failed: it does not stay Pending for ever.
C34_PrunedPredecessorUnblocks ==
  \A t \in TaskIds :
    [](( /\ t \in DOMAIN tasks
         /\ running
         /\ tasks[t].status = PENDING
         /\ tasks[t].depends_on # None
         /\ tasks[t].depends_on \notin DOMAIN tasks )
       => <>((t \notin DOMAIN tasks) \/ tasks[t].status # PENDING))

\* C36: after the handler of a directly started task has returned, the
\* task's row, if it still exists, is Complete or Error (never Processing),
\* whichever step of the work raised or none; and a terminal row is never
\* given another status
C36_DirectTaskEndsTerminal ==
  /\ [](\A id \in DOMAIN threads :
          (threads[id] = "returned" /\ id \in DOMAIN tasks)
            => tasks[id].status \in {COMPLETE, ERROR})
  /\ [][\A id \in DOMAIN tasks :
          (tasks[id].status \in {COMPLETE, ERROR} /\ id \in DOMAIN tasks')
            => tasks'[id].status = tasks[id].status]_vars

\* C36 witness: one handler returned after the work succeeded, another after
\* a step raised, a third is still at work
C36_Witness ==
  \E a, b, c \in DOMAIN threads :
    /\ threads[a] = "returned" /\ a \in DOMAIN tasks /\ tasks[a].status = COMPLETE
    /\ threads[b] = "returned" /\ b \in DOMAIN tasks /\ tasks[b].status = ERROR
    /\ threads[c] = WorkSteps[2] /\ tasks[c].status = PROCESSING

\* C37: at most one TaskQueue is ever constructed, every call of
\* get_instance that has returned returned the one instance, and the
\* instance, once set, is never replaced, whatever max_workers later calls
\* pass
C37_OneInstance ==
  /\ [](instance # NoInstance => instance.serial = 1)
  /\ [](\A g \in Getters : getters[g].ret # NoInstance => getters[g].ret = instance)
  /\ [][instance # NoInstance => instance' = instance]_vars

\* C37 witness: a caller that found no instance at the first test holds the
\* lock after another caller, with another max_workers, created the
\* instance and returned it
C37_Witness ==
  \E g, h \in Getters :
    /\ getters[g].pc = "locked" /\ lock = g
    /\ instance # NoInstance
    /\ getters[g].max_workers # instance.max_workers
    /\ getters[h].ret = instance
    /\ getters[h].max_workers = instance.max_workers
====
